---- MODULE Spec2Model ----
(***************************************************************************)
(* Model of main.py: a curses dashboard.  A foreground thread (TuiApp.run) *)
(* renders the widgets and handles input; a daemon thread                  *)
(* (TuiApp.update_widgets, the Sampler) refreshes the widgets' state.      *)
(* Threads interleave between shared-field accesses: there is no lock in   *)
(* the source.  Percentages are kept in tenths of a percent (psutil        *)
(* reports one decimal), memory sizes in bytes.                            *)
(***************************************************************************)
EXTENDS Integers, Sequences, FiniteSets, TLC

VARIABLES
    running,    \* TuiApp.running
    mouse_x,    \* TuiApp.mouse_x
    mouse_y,    \* TuiApp.mouse_y
    height,     \* TuiApp.height
    width,      \* TuiApp.width
    widgets,    \* TuiApp.widgets: sequence of widget records
    m_pc,       \* foreground thread: position in run()/draw()/handle_mouse()
    m_i,        \* foreground thread: index of the widget being drawn / hit-tested
    m_k,        \* foreground thread: position inside the current widget's draw()
    regs,       \* foreground thread: locals of the current widget's draw()
    screen,     \* what draw() has written for each widget and refresh() has not yet flushed
    event,      \* what the input poll of the current loop iteration produced
    button,     \* handle_mouse: the button mask of the last decoded mouse event
    mouse_event,\* run(): the tuple getmouse() returned last, <<id, x, y, z, bstate>>
    rendered,   \* draws completed (refresh() reached) in the current loop iteration
    clicked,    \* widgets whose on_click ran in the current handle_mouse call
    actions,    \* callback invocations in the current handle_mouse call
    s_pc,       \* Sampler thread: position in update_widgets()
    s_i,        \* Sampler thread: index of the widget being updated
    s_k,        \* Sampler thread: position inside the current widget's update()
    memory,     \* Sampler thread: local `memory` of MemoryWidget.update
    late_updates, \* update() calls that ended after running had become false
    proc        \* "up" while the interpreter runs, "down" once the process exited

vars == <<running, mouse_x, mouse_y, height, width, widgets, m_pc, m_i, m_k,
          regs, screen, event, button, mouse_event, rendered, clicked, actions,
          s_pc, s_i, s_k, memory, late_updates, proc>>

fg_vars == <<m_pc, m_i, m_k, regs, screen, event, button, mouse_event, rendered,
             clicked, actions>>
sampler_vars == <<s_pc, s_i, s_k, memory, late_updates>>
app_vars == <<running, mouse_x, mouse_y, height, width>>

----------------------------------------------------------------------------
(* Bounds of the environment's inputs *)

\* number of distinct memory samples the metrics provider can return
NSamples == 1

MiB == 1024 * 1024

\* sampleMemory(): percent in tenths, used <= total in bytes
Sample(n) ==
    [percent |-> 300 + 200 * n,
     used    |-> (2 * n + 1) * MiB + 7 * n,
     total   |-> (2 * n + 4) * MiB + 100 * n]

\* the local `memory` outside MemoryWidget.update
NoSample == [percent |-> 0, used |-> 0, total |-> 0]

Samples == {Sample(n) : n \in 1..NSamples}

\* sampleCpuPercent(): tenths of a percent
CpuVals == {700}

\* datetime.now(): instants since construction
Times == {0, 1}

\* terminal sizes (rows, columns) getmaxyx() can report
BigSize == <<24, 80>>
SmallSize == <<4, 30>>
Sizes == {BigSize, SmallSize}

\* positions a mouse event can report
Points == {<<0, 0>>, <<30, 2>>, <<3, 1>>, <<8, 2>>}

BUTTON1_CLICKED == 4
BUTTON1_PRESSED == 2
ButtonMasks == {BUTTON1_PRESSED, BUTTON1_CLICKED}

\* button & curses.BUTTON1_CLICKED
primary_click(b) == (b \div BUTTON1_CLICKED) % 2 = 1

----------------------------------------------------------------------------
(* Widgets *)

Widget(x, y, w, h) ==
    [kind |-> "Widget", x |-> x, y |-> y, width |-> w, height |-> h,
     time |-> 0, cpu_percent |-> 0,
     memory_percent |-> 0, memory_used |-> 0, memory_total |-> 0,
     pressed |-> FALSE]

\* ClockWidget.__init__ calls update(): time holds the construction instant
ClockWidget(x, y, w, h) ==
    [Widget(x, y, w, h) EXCEPT !.kind = "Clock", !.time = 0]

CpuMonitorWidget(x, y, w, h) ==
    [Widget(x, y, w, h) EXCEPT !.kind = "Cpu", !.cpu_percent = 0]

MemoryWidget(x, y, w, h) ==
    [Widget(x, y, w, h) EXCEPT !.kind = "Memory", !.memory_percent = 0,
                               !.memory_used = 0, !.memory_total = 0]

\* every button of the program is built with callback = TuiApp.quit
ButtonWidget(x, y, w, h) ==
    [Widget(x, y, w, h) EXCEPT !.kind = "Button", !.pressed = FALSE]

\* TuiApp.init_widgets
init_widgets ==
    << ClockWidget(1, 1, 20, 3),
       CpuMonitorWidget(1, 5, 20, 5),
       MemoryWidget(23, 5, 20, 5),
       ButtonWidget(23, 1, 20, 3) >>

\* a widget list with overlapping boxes: two buttons and a plain widget
\* sharing cells, as handle_mouse() accepts any self.widgets
overlap_widgets ==
    << ButtonWidget(1, 1, 10, 3),
       ButtonWidget(6, 2, 10, 3),
       Widget(6, 2, 12, 4),
       MemoryWidget(23, 5, 20, 5) >>

Layouts == {init_widgets, overlap_widgets}

\* is_inside with closed right and bottom edges
is_inside_closed(w, mx, my) ==
    /\ w.x <= mx /\ mx <= w.x + w.width
    /\ w.y <= my /\ my <= w.y + w.height

\* Widget.is_inside
is_inside(w, mx, my) ==
    /\ w.x <= mx /\ mx < w.x + w.width
    /\ w.y <= my /\ my < w.y + w.height

----------------------------------------------------------------------------
(* Terminal backend *)

RECURSIVE Digits(_)
\* len(str(n)) for n >= 0
Digits(n) == IF n < 10 THEN 1 ELSE 1 + Digits(n \div 10)

\* stdscr.addstr(y, x, <n cells>) does not raise curses.error: the start is
\* inside the window and the text ends before the window's last cell
addstr_ok(y, x, n) ==
    /\ 0 <= y /\ y < height
    /\ 0 <= x /\ x < width
    /\ y * width + x + n < height * width

\* one frame's output for one widget; rows = content rows written so far
Blank ==
    [rows |-> 0, time |-> 0, pct |-> 0, filled |-> 0, alert |-> FALSE,
     used |-> 0, total |-> 0, hl |-> FALSE]

NoRegs == [filled |-> 0, alert |-> FALSE, used |-> 0]

\* Widget.draw: the box border, written cell by cell
Widget_draw_ok(w) ==
    /\ addstr_ok(w.y, w.x, 1)
    /\ addstr_ok(w.y, w.x + w.width - 1, 1)
    /\ addstr_ok(w.y + w.height - 1, w.x, 1)
    /\ addstr_ok(w.y + w.height - 1, w.x + w.width - 1, 1)

\* the bar count rounded to the nearest cell
bar_filled_round(w, pct) == ((w.width - 6) * pct + 500) \div 1000

\* filled = int(bar_width * percent / 100), percent in tenths
bar_filled(w, pct) == ((w.width - 6) * pct) \div 1000

\* the number of cells in "░" * (bar_width - filled): none for a count <= 0
bar_empty(w, filled) ==
    IF w.width - 6 - filled > 0 THEN w.width - 6 - filled ELSE 0

\* percent < 70 selects the green pair, otherwise the red pair
bar_alert(pct) == ~(pct < 700)

\* memory.used // (1024 * 1024)
to_mb(bytes) == bytes \div (1024 * 1024)

----------------------------------------------------------------------------
(* TuiApp.__init__ *)

Init ==
    /\ running = TRUE
    /\ mouse_x = 0
    /\ mouse_y = 0
    /\ height = BigSize[1]
    /\ width = BigSize[2]
    /\ widgets \in Layouts
    /\ m_pc = "loop"
    /\ m_i = 1
    /\ m_k = 1
    /\ regs = NoRegs
    /\ screen = [i \in 1..4 |-> Blank]
    /\ event = "none"
    /\ button = 0
    /\ mouse_event = <<0, 0, 0, 0, 0>>
    /\ rendered = 0
    /\ clicked = <<>>
    /\ actions = 0
    /\ s_pc = "check"
    /\ s_i = 1
    /\ s_k = 1
    /\ memory = NoSample
    /\ late_updates = 0
    /\ proc = "up"

----------------------------------------------------------------------------
(* Foreground thread: TuiApp.run *)

\* quit() written as a toggle of the flag
quit_toggle == running' = ~running

\* TuiApp.quit
quit == running' = FALSE

\* run() looping without testing self.running
RunLoop_unconditional ==
    /\ proc = "up" /\ m_pc = "loop"
    /\ m_pc' = "draw"
    /\ screen' = [i \in DOMAIN screen |-> Blank]
    /\ event' = "none"
    /\ rendered' = 0
    /\ m_i' = 1 /\ m_k' = 1 /\ regs' = NoRegs
    /\ UNCHANGED <<button, mouse_event, clicked, actions, app_vars, widgets, sampler_vars, proc>>

\* run() with the input poll ahead of draw() in the loop body
RunLoop_poll_first ==
    /\ proc = "up" /\ m_pc = "loop"
    /\ IF running
         THEN /\ m_pc' = "poll"
              /\ screen' = [i \in DOMAIN screen |-> Blank]
              /\ event' = "none"
              /\ rendered' = 0
         ELSE /\ m_pc' = "returned"
              /\ UNCHANGED <<screen, event, rendered>>
    /\ m_i' = 1 /\ m_k' = 1 /\ regs' = NoRegs
    /\ UNCHANGED <<button, mouse_event, clicked, actions, app_vars, widgets,
                   sampler_vars, proc>>

\* `while self.running:`; on entry to the body draw() clears the screen
\* and draws the outer border
RunLoop ==
    /\ proc = "up" /\ m_pc = "loop"
    /\ IF running
         THEN /\ m_pc' = "draw"
              /\ screen' = [i \in DOMAIN screen |-> Blank]
              /\ event' = "none"
              /\ rendered' = 0
         ELSE /\ m_pc' = "returned"
              /\ UNCHANGED <<screen, event, rendered>>
    /\ m_i' = 1 /\ m_k' = 1 /\ regs' = NoRegs
    /\ UNCHANGED <<button, mouse_event, clicked, actions, app_vars, widgets, sampler_vars, proc>>

\* position after the current widget's draw() returned
DrawAdvance ==
    /\ m_k' = 1
    /\ regs' = NoRegs
    /\ IF m_i < Len(widgets)
         THEN m_i' = m_i + 1 /\ m_pc' = "draw"
         ELSE m_i' = 1 /\ m_pc' = "marker"

\* an addstr raised: nothing in run() catches curses.error around draw()
DrawRaise ==
    /\ m_pc' = "crashed"
    /\ UNCHANGED <<m_i, m_k, regs, screen>>

\* Widget.draw for a plain widget
DrawWidget ==
    /\ proc = "up" /\ m_pc = "draw"
    /\ widgets[m_i].kind = "Widget"
    /\ IF Widget_draw_ok(widgets[m_i])
         THEN DrawAdvance /\ UNCHANGED screen
         ELSE DrawRaise
    /\ UNCHANGED <<event, button, mouse_event, rendered, clicked, actions, app_vars, widgets, sampler_vars, proc>>

\* ClockWidget.draw
DrawClock ==
    /\ proc = "up" /\ m_pc = "draw"
    /\ widgets[m_i].kind = "Clock"
    /\ LET w == widgets[m_i] IN
       IF /\ Widget_draw_ok(w)
          /\ addstr_ok(w.y, w.x + 2, 7)
          /\ addstr_ok(w.y + 1, w.x + 2, 19)
         THEN /\ DrawAdvance
              /\ screen' = [screen EXCEPT ![m_i] =
                              [@ EXCEPT !.rows = 1, !.time = w.time]]
         ELSE DrawRaise
    /\ UNCHANGED <<event, button, mouse_event, rendered, clicked, actions, app_vars, widgets, sampler_vars, proc>>

\* ButtonWidget.draw
DrawButton ==
    /\ proc = "up" /\ m_pc = "draw"
    /\ widgets[m_i].kind = "Button"
    /\ LET w == widgets[m_i] IN
       IF /\ Widget_draw_ok(w)
          /\ addstr_ok(w.y + w.height \div 2, w.x + (w.width - 4) \div 2, 4)
         THEN /\ DrawAdvance
              /\ screen' = [screen EXCEPT ![m_i] =
                              [@ EXCEPT !.rows = 1, !.hl = w.pressed]]
         ELSE DrawRaise
    /\ UNCHANGED <<event, button, mouse_event, rendered, clicked, actions, app_vars, widgets, sampler_vars, proc>>

\* CpuMonitorWidget.draw: cpu_percent is read at lines 156, 160 and 165
DrawCpu ==
    /\ proc = "up" /\ m_pc = "draw"
    /\ widgets[m_i].kind = "Cpu"
    /\ LET w == widgets[m_i] IN
       CASE m_k = 1 ->
              IF Widget_draw_ok(w) /\ addstr_ok(w.y, w.x + 2, 5)
                THEN /\ regs' = [regs EXCEPT !.filled = bar_filled(w, w.cpu_percent)]
                     /\ m_k' = 2
                     /\ UNCHANGED <<m_pc, m_i, screen>>
                ELSE DrawRaise
         [] m_k = 2 ->
              /\ regs' = [regs EXCEPT !.alert = bar_alert(w.cpu_percent)]
              /\ m_k' = 3
              /\ UNCHANGED <<m_pc, m_i, screen>>
         [] OTHER ->
              IF /\ addstr_ok(w.y + 1, w.x + 2, 6)
                 /\ addstr_ok(w.y + 2, w.x + 2, w.width - 6)
                THEN /\ DrawAdvance
                     /\ screen' = [screen EXCEPT ![m_i] =
                                     [@ EXCEPT !.rows = 2, !.pct = w.cpu_percent,
                                               !.filled = regs.filled,
                                               !.alert = regs.alert]]
                ELSE DrawRaise
    /\ UNCHANGED <<event, button, mouse_event, rendered, clicked, actions, app_vars, widgets, sampler_vars, proc>>

\* MemoryWidget.draw: memory_percent is read at lines 187, 192 and 197,
\* memory_used and then memory_total at line 199
DrawMemory ==
    /\ proc = "up" /\ m_pc = "draw"
    /\ widgets[m_i].kind = "Memory"
    /\ LET w == widgets[m_i] IN
       CASE m_k = 1 ->
              IF Widget_draw_ok(w) /\ addstr_ok(w.y, w.x + 2, 8)
                THEN /\ regs' = [regs EXCEPT !.filled = bar_filled(w, w.memory_percent)]
                     /\ m_k' = 2
                     /\ UNCHANGED <<m_pc, m_i, screen>>
                ELSE DrawRaise
         [] m_k = 2 ->
              /\ regs' = [regs EXCEPT !.alert = bar_alert(w.memory_percent)]
              /\ m_k' = 3
              /\ UNCHANGED <<m_pc, m_i, screen>>
         [] m_k = 3 ->
              IF /\ addstr_ok(w.y + 1, w.x + 2, 6)
                 /\ addstr_ok(w.y + 2, w.x + 2, w.width - 6)
                THEN /\ screen' = [screen EXCEPT ![m_i] =
                                     [@ EXCEPT !.rows = 2, !.pct = w.memory_percent,
                                               !.filled = regs.filled,
                                               !.alert = regs.alert]]
                     /\ m_k' = 4
                     /\ UNCHANGED <<m_pc, m_i, regs>>
                ELSE DrawRaise
         [] m_k = 4 ->
              /\ regs' = [regs EXCEPT !.used = w.memory_used]
              /\ m_k' = 5
              /\ UNCHANGED <<m_pc, m_i, screen>>
         [] OTHER ->
              IF addstr_ok(w.y + 3, w.x + 2,
                           Digits(regs.used) + Digits(w.memory_total) + 3)
                THEN /\ DrawAdvance
                     /\ screen' = [screen EXCEPT ![m_i] =
                                     [@ EXCEPT !.rows = 3, !.used = regs.used,
                                               !.total = w.memory_total]]
                ELSE DrawRaise
    /\ UNCHANGED <<event, button, mouse_event, rendered, clicked, actions, app_vars, widgets, sampler_vars, proc>>

\* draw(), line 54: the cursor marker
DrawMarker ==
    /\ proc = "up" /\ m_pc = "marker"
    /\ m_pc' = IF addstr_ok(mouse_y, mouse_x, 1) THEN "status" ELSE "crashed"
    /\ UNCHANGED <<m_i, m_k, regs, screen, event, button, mouse_event, rendered, clicked, actions, app_vars,
                   widgets, sampler_vars, proc>>

\* draw(), lines 56-59: the status line, then refresh()
DrawStatus ==
    /\ proc = "up" /\ m_pc = "status"
    /\ IF addstr_ok(height - 1, 0, 30 + Digits(mouse_x) + Digits(mouse_y))
         THEN /\ m_pc' = "poll"
              /\ screen' = [i \in DOMAIN screen |-> Blank]
              /\ rendered' = rendered + 1
         ELSE /\ m_pc' = "crashed"
              /\ UNCHANGED <<screen, rendered>>
    /\ UNCHANGED <<m_i, m_k, regs, event, button, mouse_event, clicked, actions, app_vars,
                   widgets, sampler_vars, proc>>

\* getch() timed out or returned a key run() ignores
PollNone ==
    /\ proc = "up" /\ m_pc = "poll"
    /\ m_pc' = "loop"
    /\ event' = "timeout"
    /\ UNCHANGED <<m_i, m_k, regs, screen, button, mouse_event, rendered, clicked, actions, app_vars,
                   widgets, sampler_vars, proc>>

\* key == ord('q')
PollQuit ==
    /\ proc = "up" /\ m_pc = "poll"
    /\ quit
    /\ m_pc' = "loop"
    /\ event' = "quit"
    /\ UNCHANGED <<m_i, m_k, regs, screen, button, mouse_event, rendered, clicked, actions, mouse_x, mouse_y,
                   height, width, widgets, sampler_vars, proc>>

\* getmouse() raising with no inner try: the error leaves run()
PollMouseError_propagates ==
    /\ proc = "up" /\ m_pc = "poll"
    /\ m_pc' = "crashed"
    /\ event' = "mouse_error"
    /\ UNCHANGED <<m_i, m_k, regs, screen, button, mouse_event, rendered, clicked, actions, app_vars,
                   widgets, sampler_vars, proc>>

\* key == KEY_MOUSE and getmouse() raised: the bare except swallows it
PollMouseError ==
    /\ proc = "up" /\ m_pc = "poll"
    /\ m_pc' = "loop"
    /\ event' = "mouse_error"
    /\ UNCHANGED <<m_i, m_k, regs, screen, button, mouse_event, rendered, clicked, actions, app_vars,
                   widgets, sampler_vars, proc>>

\* handle_mouse storing the position only for a primary click
PollMouse_click_only ==
    /\ proc = "up" /\ m_pc = "poll"
    /\ \E p \in Points, b \in ButtonMasks :
          /\ p[1] < width /\ p[2] < height
          /\ mouse_event' = <<0, p[1], p[2], 0, b>>
          /\ mouse_x' = IF primary_click(b) THEN mouse_event'[2] ELSE mouse_x
          /\ mouse_y' = IF primary_click(b) THEN mouse_event'[3] ELSE mouse_y
          /\ clicked' = <<>>
          /\ actions' = 0
          /\ m_i' = 1
          /\ button' = mouse_event'[5]
          /\ event' = "mouse"
          /\ m_pc' = IF primary_click(b) THEN "dispatch" ELSE "loop"
    /\ UNCHANGED <<m_k, regs, screen, rendered, running, height, width, widgets,
                   sampler_vars, proc>>

\* key == KEY_MOUSE: handle_mouse(event), lines 62-66
PollMouse ==
    /\ proc = "up" /\ m_pc = "poll"
    /\ \E p \in Points, b \in ButtonMasks :
          /\ p[1] < width /\ p[2] < height
          /\ mouse_event' = <<0, p[1], p[2], 0, b>>
          /\ mouse_x' = mouse_event'[2]
          /\ mouse_y' = mouse_event'[3]
          /\ clicked' = <<>>
          /\ actions' = 0
          /\ m_i' = 1
          /\ button' = mouse_event'[5]
          /\ event' = "mouse"
          /\ m_pc' = IF primary_click(b) THEN "dispatch" ELSE "loop"
    /\ UNCHANGED <<m_k, regs, screen, rendered, running, height, width, widgets,
                   sampler_vars, proc>>

\* on_click invoking the callback without setting pressed
on_click_no_press(i) ==
    IF widgets[i].kind = "Button"
      THEN /\ actions' = actions + 1
           /\ quit
           /\ UNCHANGED widgets
      ELSE UNCHANGED <<widgets, actions, running>>

\* ButtonWidget.on_click, or Widget.on_click for the other kinds
on_click(i) ==
    IF widgets[i].kind = "Button"
      THEN /\ widgets' = [widgets EXCEPT ![i].pressed = TRUE]
           /\ actions' = actions + 1
           /\ quit
      ELSE UNCHANGED <<widgets, actions, running>>

\* handle_mouse leaving the loop after the first widget hit
Dispatch_first_match ==
    /\ proc = "up" /\ m_pc = "dispatch"
    /\ IF is_inside(widgets[m_i], mouse_x, mouse_y)
         THEN /\ clicked' = Append(clicked, m_i)
              /\ on_click(m_i)
              /\ m_i' = 1 /\ m_pc' = "loop"
         ELSE /\ UNCHANGED <<clicked, widgets, actions, running>>
              /\ IF m_i < Len(widgets)
                   THEN m_i' = m_i + 1 /\ m_pc' = "dispatch"
                   ELSE m_i' = 1 /\ m_pc' = "loop"
    /\ UNCHANGED <<m_k, regs, screen, event, button, mouse_event, rendered, mouse_x, mouse_y, height, width,
                   sampler_vars, proc>>

\* handle_mouse leaving the loop over the widgets once running is false
Dispatch_stop_on_quit ==
    /\ proc = "up" /\ m_pc = "dispatch"
    /\ IF running /\ is_inside(widgets[m_i], mouse_x, mouse_y)
         THEN /\ clicked' = Append(clicked, m_i)
              /\ on_click(m_i)
         ELSE UNCHANGED <<clicked, widgets, actions, running>>
    /\ IF running /\ m_i < Len(widgets)
         THEN m_i' = m_i + 1 /\ m_pc' = "dispatch"
         ELSE m_i' = 1 /\ m_pc' = "loop"
    /\ UNCHANGED <<m_k, regs, screen, event, button, mouse_event, rendered, mouse_x, mouse_y, height, width,
                   sampler_vars, proc>>

\* handle_mouse, lines 67-69: one iteration of the loop over the widgets
Dispatch ==
    /\ proc = "up" /\ m_pc = "dispatch"
    /\ IF is_inside(widgets[m_i], mouse_x, mouse_y)
         THEN /\ clicked' = Append(clicked, m_i)
              /\ on_click(m_i)
         ELSE UNCHANGED <<clicked, widgets, actions, running>>
    /\ IF m_i < Len(widgets)
         THEN m_i' = m_i + 1 /\ m_pc' = "dispatch"
         ELSE m_i' = 1 /\ m_pc' = "loop"
    /\ UNCHANGED <<m_k, regs, screen, event, button, mouse_event, rendered, mouse_x, mouse_y, height, width,
                   sampler_vars, proc>>

\* a resize handler that also pulls the cursor back into the new screen
PollResize_clamp ==
    /\ proc = "up" /\ m_pc = "poll"
    /\ \E sz \in Sizes :
          /\ sz # <<height, width>>
          /\ height' = sz[1]
          /\ width' = sz[2]
          /\ mouse_x' = IF mouse_x < sz[2] THEN mouse_x ELSE sz[2] - 1
          /\ mouse_y' = IF mouse_y < sz[1] THEN mouse_y ELSE sz[1] - 1
    /\ m_pc' = "loop"
    /\ event' = "resize"
    /\ UNCHANGED <<m_i, m_k, regs, screen, button, mouse_event, rendered, clicked, actions, running,
                   widgets, sampler_vars, proc>>

\* key == KEY_RESIZE
PollResize ==
    /\ proc = "up" /\ m_pc = "poll"
    /\ \E sz \in Sizes :
          /\ sz # <<height, width>>
          /\ height' = sz[1]
          /\ width' = sz[2]
    /\ m_pc' = "loop"
    /\ event' = "resize"
    /\ UNCHANGED <<m_i, m_k, regs, screen, button, mouse_event, rendered, clicked, actions, running,
                   mouse_x, mouse_y, widgets, sampler_vars, proc>>

\* run() without the except KeyboardInterrupt clause
PollInterrupt_propagates ==
    /\ proc = "up" /\ m_pc = "poll"
    /\ m_pc' = "crashed"
    /\ event' = "interrupt"
    /\ UNCHANGED <<m_i, m_k, regs, screen, button, mouse_event, rendered, clicked, actions, app_vars,
                   widgets, sampler_vars, proc>>

\* KeyboardInterrupt raised while getch() waits, inside the try block
PollInterrupt ==
    /\ proc = "up" /\ m_pc = "poll"
    /\ quit
    /\ m_pc' = "loop"
    /\ event' = "interrupt"
    /\ UNCHANGED <<m_i, m_k, regs, screen, button, mouse_event, rendered, clicked, actions, mouse_x, mouse_y,
                   height, width, widgets, sampler_vars, proc>>

\* main() returns (or the exception leaves it) and the interpreter exits;
\* the daemon thread is not joined and ends with the process
ProcessExit ==
    /\ proc = "up" /\ m_pc \in {"returned", "crashed"}
    /\ proc' = "down"
    /\ UNCHANGED <<fg_vars, app_vars, widgets, sampler_vars>>

----------------------------------------------------------------------------
(* Sampler thread: TuiApp.update_widgets *)

\* update_widgets looping without testing self.running
SamplerCheck_forever ==
    /\ proc = "up" /\ s_pc = "check"
    /\ s_pc' = "update"
    /\ s_i' = 1 /\ s_k' = 1
    /\ UNCHANGED <<memory, late_updates, fg_vars, app_vars, widgets, proc>>

\* `while self.running:` of update_widgets
SamplerCheck ==
    /\ proc = "up" /\ s_pc = "check"
    /\ s_pc' = IF running THEN "update" ELSE "done"
    /\ s_i' = 1 /\ s_k' = 1
    /\ UNCHANGED <<memory, late_updates, fg_vars, app_vars, widgets, proc>>

\* position after the current widget's update() returned
UpdateAdvance ==
    /\ s_k' = 1
    /\ memory' = NoSample
    /\ late_updates' = IF ~running /\ late_updates <= Len(widgets)
                         THEN late_updates + 1
                         ELSE late_updates
    /\ IF s_i < Len(widgets)
         THEN s_i' = s_i + 1 /\ s_pc' = "update"
         ELSE s_i' = 1 /\ s_pc' = "sleep"

\* the metrics provider raised inside update(): nothing in update_widgets
\* catches it, the exception ends the thread
UpdateRaise ==
    /\ s_pc' = "crashed"
    /\ UNCHANGED <<s_i, s_k, memory, late_updates, widgets>>

\* an update() that releases the button
UpdateWidget_release ==
    /\ proc = "up" /\ s_pc = "update"
    /\ widgets[s_i].kind \in {"Widget", "Button"}
    /\ widgets' = [widgets EXCEPT ![s_i].pressed = FALSE]
    /\ UpdateAdvance
    /\ UNCHANGED <<fg_vars, app_vars, proc>>

\* Widget.update (also the Button's): pass
UpdateWidget ==
    /\ proc = "up" /\ s_pc = "update"
    /\ widgets[s_i].kind \in {"Widget", "Button"}
    /\ UpdateAdvance
    /\ UNCHANGED <<widgets, fg_vars, app_vars, proc>>

\* ClockWidget.update
UpdateClock ==
    /\ proc = "up" /\ s_pc = "update"
    /\ widgets[s_i].kind = "Clock"
    /\ \E now \in {t \in Times : t >= widgets[s_i].time} :
          widgets' = [widgets EXCEPT ![s_i].time = now]
    /\ UpdateAdvance
    /\ UNCHANGED <<fg_vars, app_vars, proc>>

\* CpuMonitorWidget.update
UpdateCpu ==
    /\ proc = "up" /\ s_pc = "update"
    /\ widgets[s_i].kind = "Cpu"
    /\ \/ \E c \in CpuVals :
             /\ widgets' = [widgets EXCEPT ![s_i].cpu_percent = c]
             /\ UpdateAdvance
       \/ UpdateRaise
    /\ UNCHANGED <<fg_vars, app_vars, proc>>

\* MemoryWidget.update: the sample, then three separate field writes
UpdateMemory ==
    /\ proc = "up" /\ s_pc = "update"
    /\ widgets[s_i].kind = "Memory"
    /\ CASE s_k = 1 ->
              \/ \E m \in Samples :
                    /\ memory' = m
                    /\ s_k' = 2
                    /\ UNCHANGED <<s_pc, s_i, late_updates, widgets>>
              \/ UpdateRaise
         [] s_k = 2 ->
              /\ widgets' = [widgets EXCEPT ![s_i].memory_percent = memory.percent]
              /\ s_k' = 3
              /\ UNCHANGED <<s_pc, s_i, memory, late_updates>>
         [] s_k = 3 ->
              /\ widgets' = [widgets EXCEPT ![s_i].memory_used = to_mb(memory.used)]
              /\ s_k' = 4
              /\ UNCHANGED <<s_pc, s_i, memory, late_updates>>
         [] OTHER ->
              /\ widgets' = [widgets EXCEPT ![s_i].memory_total = to_mb(memory.total)]
              /\ UpdateAdvance
    /\ UNCHANGED <<fg_vars, app_vars, proc>>

\* update_widgets testing self.running once, before its first round only
SamplerSleep_no_check ==
    /\ proc = "up" /\ s_pc = "sleep"
    /\ s_pc' = "update"
    /\ UNCHANGED <<s_i, s_k, memory, late_updates, fg_vars, app_vars, widgets, proc>>

\* time.sleep(0.5)
SamplerSleep ==
    /\ proc = "up" /\ s_pc = "sleep"
    /\ s_pc' = "check"
    /\ UNCHANGED <<s_i, s_k, memory, late_updates, fg_vars, app_vars, widgets, proc>>

----------------------------------------------------------------------------

Foreground ==
    \/ RunLoop
    \/ DrawWidget
    \/ DrawClock
    \/ DrawCpu
    \/ DrawMemory
    \/ DrawButton
    \/ DrawMarker
    \/ DrawStatus
    \/ PollNone
    \/ PollQuit
    \/ PollMouseError
    \/ PollMouse
    \/ Dispatch
    \/ PollResize
    \/ PollInterrupt

Sampler ==
    \/ SamplerCheck
    \/ UpdateWidget
    \/ UpdateClock
    \/ UpdateCpu
    \/ UpdateMemory
    \/ SamplerSleep

Next == Foreground \/ Sampler \/ ProcessExit

Spec == Init /\ [][Next]_vars

\* the Sampler thread is scheduled fairly while the process is up
FairSpec == Spec /\ WF_vars(Sampler)

----------------------------------------------------------------------------
(* Hit test alone: handle_mouse dispatching a primary click over a single   *)
(* plain widget, for every box and point of a small grid                    *)

\* largest x and y of a box's corner
MaxCoord == 2
\* largest width and height of a box
MaxSide == 2

InitInside ==
    /\ running = TRUE
    /\ \E x \in 0..MaxCoord, y \in 0..MaxCoord, w \in 1..MaxSide, h \in 1..MaxSide :
          widgets = << Widget(x, y, w, h) >>
    /\ mouse_x \in 0 .. (MaxCoord + MaxSide + 1)
    /\ mouse_y \in 0 .. (MaxCoord + MaxSide + 1)
    /\ height = BigSize[1]
    /\ width = BigSize[2]
    /\ m_pc = "dispatch"
    /\ m_i = 1
    /\ m_k = 1
    /\ regs = NoRegs
    /\ screen = [i \in 1..4 |-> Blank]
    /\ event = "mouse"
    /\ button = BUTTON1_CLICKED
    /\ mouse_event = <<0, mouse_x, mouse_y, 0, BUTTON1_CLICKED>>
    /\ rendered = 1
    /\ clicked = <<>>
    /\ actions = 0
    /\ s_pc = "check"
    /\ s_i = 1
    /\ s_k = 1
    /\ memory = NoSample
    /\ late_updates = 0
    /\ proc = "up"

NextInside == Dispatch

SpecInside == InitInside /\ [][NextInside]_vars

----------------------------------------------------------------------------
(* The bar of CpuMonitorWidget.draw and MemoryWidget.draw over every inner  *)
(* width up to MaxBar and every percentage psutil can report               *)

MaxBar == 14

\* psutil percentages: 0.0 .. 100.0 in steps of 0.1, kept in tenths
Percents == 0 .. 1000

InitBar ==
    /\ running = TRUE
    /\ mouse_x = 0
    /\ mouse_y = 0
    /\ height = BigSize[1]
    /\ width = BigSize[2]
    /\ \E bw \in 0 .. MaxBar, pct \in Percents :
          \/ widgets = << [CpuMonitorWidget(1, 1, bw + 6, 5)
                             EXCEPT !.cpu_percent = pct] >>
          \/ widgets = << [MemoryWidget(1, 1, bw + 6, 5)
                             EXCEPT !.memory_percent = pct] >>
    /\ m_pc = "draw"
    /\ m_i = 1
    /\ m_k = 1
    /\ regs = NoRegs
    /\ screen = [i \in 1..4 |-> Blank]
    /\ event = "none"
    /\ button = 0
    /\ mouse_event = <<0, 0, 0, 0, 0>>
    /\ rendered = 0
    /\ clicked = <<>>
    /\ actions = 0
    /\ s_pc = "check"
    /\ s_i = 1
    /\ s_k = 1
    /\ memory = NoSample
    /\ late_updates = 0
    /\ proc = "up"

NextBar == DrawCpu \/ DrawMemory

SpecBar == InitBar /\ [][NextBar]_vars

----------------------------------------------------------------------------
(* Properties *)

\* the widgets whose box holds the stored cursor position
HitSet ==
    {i \in DOMAIN widgets :
        /\ mouse_x \in widgets[i].x .. (widgets[i].x + widgets[i].width - 1)
        /\ mouse_y \in widgets[i].y .. (widgets[i].y + widgets[i].height - 1)}

ButtonHitSet == {i \in HitSet : widgets[i].kind = "Button"}

MemoryIdx == {i \in DOMAIN widgets : widgets[i].kind = "Memory"}

\* a handle_mouse call for a primary click has returned
ClickHandled ==
    /\ event = "mouse" /\ primary_click(button)
    /\ m_pc \in {"loop", "returned"}

\* C1: no render of the Memory widget shows usedMB > totalMB, given that
\* every sample of the provider has used <= total
C1_NoTornRead ==
    \A i \in MemoryIdx :
        screen[i].rows = 3 => screen[i].used <= screen[i].total

\* the (percent, usedMB, totalMB) triples that come from one single sample,
\* the constructor's zeros included
SingleSampleTriples ==
    {<<0, 0, 0>>} \cup
    {<<sm.percent, sm.used \div MiB, sm.total \div MiB>> : sm \in Samples}

\* C2: an update() of a widget is never in progress while a draw() of the
\* same widget is in progress, and every drawn Memory triple comes from one
\* single sample
C2_AtomicWidgetAccess ==
    /\ ~(/\ s_pc = "update" /\ s_k > 1
         /\ m_pc = "draw" /\ m_k > 1
         /\ s_i = m_i)
    /\ \A i \in MemoryIdx :
          screen[i].rows = 3 =>
             <<screen[i].pct, screen[i].used, screen[i].total>>
                \in SingleSampleTriples

\* C3: a failing update() does not stop the Sampler loop: while running is
\* true (and the process is up) the Sampler thread has not ended
C3_SamplerSurvivesFailure ==
    (running /\ proc = "up") => s_pc \notin {"crashed", "done"}

\* C4: the quit key and a click on the Exit button both leave running false,
\* and once running is false the foreground loop neither renders nor polls
\* again: it only finishes the click dispatch and returns from run()
C4_QuitStopsLoop ==
    /\ event = "quit" => ~running
    /\ (ClickHandled /\ ButtonHitSet # {}) => ~running
    /\ ~running => m_pc \in {"loop", "dispatch", "returned"}
    /\ m_pc = "returned" => ~running

C4_Witness ==
    /\ m_pc = "returned" /\ ~running
    /\ event = "mouse" /\ ButtonHitSet # {}

C4_WitnessKey ==
    /\ m_pc = "returned" /\ ~running
    /\ event = "quit"

\* C5: running starts true and never changes from false back to true, also
\* when quit() is invoked again while already stopped
C5_StoppedAbsorbing == [][running' => running]_vars

C5_Witness == ~running /\ actions = 2 /\ m_pc = "returned"

\* C6: under fair scheduling of the Sampler thread, once running is false
\* the Sampler loop eventually ends (or the process, and the thread with it)
C6_SamplerStops ==
    (~running) ~> (s_pc \in {"done", "crashed"} \/ proc = "down")

C6_Witness == ~running /\ s_pc = "done" /\ proc = "up"

\* C7: once run() has returned to main the Sampler writes no widget state
C7_NoWriteAfterReturn ==
    [][(m_pc = "returned" /\ proc = "up") => widgets' = widgets]_vars

\* after a handled primary click: one Button hit means one callback call,
\* that Button clicked once and pressed; no widget hit means no call at all
C8_ClickState ==
    ClickHandled =>
       /\ Cardinality(ButtonHitSet) = 1 =>
             /\ actions = 1
             /\ \A i \in ButtonHitSet :
                   /\ widgets[i].pressed
                   /\ Len(SelectSeq(clicked, LAMBDA j : j = i)) = 1
       /\ HitSet = {} => (actions = 0 /\ clicked = <<>>)

\* a dispatch step for a point outside every box changes no pressed flag
C8_ClickStep ==
    (m_pc = "dispatch" /\ HitSet = {}) =>
       /\ \A i \in DOMAIN widgets : widgets'[i].pressed = widgets[i].pressed
       /\ actions' = actions
       /\ running' = running

\* C8: a primary click inside exactly one Button's box invokes that
\* Button's action exactly once and leaves it pressed; a primary click
\* outside every box invokes no action and changes no pressed flag
C8_ClickOneButton == []C8_ClickState /\ [][C8_ClickStep]_vars

C8_Witness ==
    /\ ClickHandled /\ Cardinality(ButtonHitSet) = 1
    /\ actions = 1

C8_WitnessOutside ==
    /\ ClickHandled /\ HitSet = {}

\* C9: a primary click dispatches on_click to every widget whose box holds
\* the point, once each, in widget sequence order
C9_MultiDispatch ==
    (event = "mouse" /\ primary_click(button)) =>
       LET upto == IF m_pc = "dispatch" THEN m_i - 1 ELSE Len(widgets) IN
       /\ {clicked[j] : j \in DOMAIN clicked} = {i \in HitSet : i <= upto}
       /\ \A j \in 1 .. Len(clicked) - 1 : clicked[j] < clicked[j + 1]

C9_Witness == ClickHandled /\ Len(clicked) = 3

\* C10: for a box with width > 0 and height > 0, is_inside(px, py) is true
\* iff x <= px < x + width and y <= py < y + height; it is false on the
\* column x + width and on the row y + height
C10_IsInsideHalfOpen ==
    m_pc = "loop" =>
       LET w == widgets[1]
           inside == (clicked = <<1>>)
       IN  /\ clicked \in {<<>>, <<1>>}
           /\ inside <=> (/\ w.x <= mouse_x /\ mouse_x < w.x + w.width
                          /\ w.y <= mouse_y /\ mouse_y < w.y + w.height)
           /\ (mouse_x = w.x + w.width \/ mouse_y = w.y + w.height) => ~inside

C10_Witness ==
    /\ m_pc = "loop"
    /\ mouse_x = widgets[1].x + widgets[1].width
    /\ mouse_y = widgets[1].y
    /\ clicked = <<>>

C10_WitnessInside ==
    /\ m_pc = "loop"
    /\ mouse_x = widgets[1].x + widgets[1].width - 1
    /\ mouse_y = widgets[1].y + widgets[1].height - 1
    /\ clicked = <<1>>

\* C11: a write outside the visible screen is never fatal: after any Resize
\* and Mouse events no render raises out of the run loop
C11_RenderNeverFatal == m_pc # "crashed"

\* the step of the foreground thread that handles a failed getmouse()
\* changes nothing but its own position
C12_MouseErrorStep ==
    (m_pc = "poll" /\ event' = "mouse_error") =>
       /\ mouse_x' = mouse_x /\ mouse_y' = mouse_y
       /\ running' = running
       /\ widgets' = widgets
       /\ clicked' = clicked /\ actions' = actions
       /\ m_pc' = "loop"

\* C12: a getmouse() failure is treated as no event: cursor position,
\* running and widget state unchanged, no on_click, and the run loop goes on
\* to its next iteration
C12_MouseErrorIsNoEvent ==
    /\ [](event = "mouse_error" => (running /\ m_pc = "loop"))
    /\ [][C12_MouseErrorStep]_vars

C12_Witness == event = "mouse_error" /\ m_pc = "loop" /\ mouse_x = 3

\* the step of the foreground thread that handles KeyboardInterrupt does
\* what the quit key does: it clears running and touches nothing else
C13_InterruptStep ==
    (m_pc = "poll" /\ event' = "interrupt") =>
       /\ running' = FALSE
       /\ widgets' = widgets
       /\ mouse_x' = mouse_x /\ mouse_y' = mouse_y
       /\ height' = height /\ width' = width
       /\ m_pc' = "loop"

\* C13: KeyboardInterrupt during the input poll acts as the quit key:
\* running becomes false, no widget state changes, and run() ends by its
\* loop test, not by the exception
C13_InterruptQuits ==
    /\ [](event = "interrupt" => (~running /\ m_pc \in {"loop", "returned"}))
    /\ [][C13_InterruptStep]_vars

C13_Witness == event = "interrupt" /\ m_pc = "returned" /\ ~running

\* the step of the foreground thread that handles KEY_RESIZE stores the new
\* dimensions and leaves every other field of the application alone
C15_ResizeStep ==
    (m_pc = "poll" /\ event' = "resize") =>
       /\ widgets' = widgets
       /\ mouse_x' = mouse_x /\ mouse_y' = mouse_y
       /\ running' = running
       /\ <<height, width>>' # <<height, width>>

\* C15: a Resize changes only the stored terminal dimensions: the widgets
\* (boxes, display state, sequence), the stored cursor position and running
\* are unchanged by its handling
C15_ResizeOnlyDimensions == [][C15_ResizeStep]_vars

\* a shrink that leaves the stored cursor beyond the new last column
C15_Witness ==
    /\ event = "resize"
    /\ height = SmallSize[1] /\ width = SmallSize[2]
    /\ mouse_x >= width

Buttons == {i \in DOMAIN widgets : widgets[i].kind = "Button"}

\* C17: a Button's pressed flag starts false and is never cleared: once
\* true it is true in every later state, whatever the threads do
C17_PressedNeverCleared ==
    /\ \A i \in Buttons : ~widgets[i].pressed
    /\ [][\A i \in Buttons : widgets[i].pressed => widgets'[i].pressed]_vars

\* a pressed button at the end of the run, both threads having ended
C17_Witness ==
    /\ \E i \in Buttons : widgets[i].pressed
    /\ s_pc = "done"
    /\ m_pc = "returned"

\* a step of the dispatch loop at a widget whose box holds the point, taken
\* with running already false, still invokes that widget's on_click
C20_DispatchStep ==
    (/\ m_pc = "dispatch" /\ ~running
     /\ m_i \in HitSet
     /\ <<m_pc, m_i>>' # <<m_pc, m_i>>) => clicked' = Append(clicked, m_i)

\* C20: click dispatch does not stop at quit: a widget later in the
\* sequence whose box holds the point still gets its on_click after the
\* Exit button set running to false, in the same handle_mouse call
C20_NoShortCircuit ==
    /\ []((ClickHandled /\ ButtonHitSet # {}) =>
            \A i \in HitSet : \E k \in DOMAIN clicked : clicked[k] = i)
    /\ [][C20_DispatchStep]_vars

\* the plain widget under two buttons got its on_click last
C20_Witness ==
    /\ ClickHandled /\ ~running
    /\ Len(clicked) > 1
    /\ widgets[clicked[1]].kind = "Button"
    /\ widgets[clicked[Len(clicked)]].kind = "Widget"

C14_WitnessLast == m_pc = "returned" /\ event = "quit" /\ rendered = 1

\* the step of the foreground thread that handles a decoded mouse event
C18_MouseStep ==
    (m_pc = "poll" /\ event' = "mouse") =>
       /\ mouse_x' = mouse_event'[2]
       /\ mouse_y' = mouse_event'[3]
       /\ ~primary_click(mouse_event'[5]) =>
             (widgets' = widgets /\ running' = running /\ m_pc' = "loop")

\* C18: every decoded mouse event stores its (x, y) as the cursor position
\* whatever its button mask; without the primary-click bit no on_click runs
\* and no widget changes, even with the point inside a widget's box
C18_MouseMoveOnly ==
    /\ [](event = "mouse" =>
            /\ mouse_x = mouse_event[2] /\ mouse_y = mouse_event[3]
            /\ ~primary_click(mouse_event[5]) =>
                  (clicked = <<>> /\ actions = 0 /\ m_pc # "dispatch"))
    /\ [][C18_MouseStep]_vars

\* a press without the click bit on the Exit button: position stored, button
\* untouched, still running
C18_Witness ==
    /\ event = "mouse" /\ m_pc = "loop"
    /\ ~primary_click(mouse_event[5])
    /\ mouse_x = mouse_event[2] /\ mouse_x > 0
    /\ ButtonHitSet # {}
    /\ \A i \in ButtonHitSet : ~widgets[i].pressed
    /\ running

\* C19: after running became false the Sampler starts no new round: its
\* loop test with running false ends the thread, so at most len(widgets)
\* update() calls end after the stop
C19_OneRoundAfterStop ==
    /\ [](late_updates <= Len(widgets))
    /\ [][(s_pc = "check" /\ ~running /\ s_pc' # s_pc) => s_pc' = "done"]_vars

\* a whole round ran after the stop, then the thread ended
C19_Witness == late_updates = Len(widgets) /\ s_pc = "done"

\* the inner bar width and the percentage of the one widget of SpecBar
BarW == widgets[1].width - 6
BarPct ==
    IF widgets[1].kind = "Cpu"
      THEN widgets[1].cpu_percent
      ELSE widgets[1].memory_percent

\* draw() has computed `filled` for the widget it is drawing
BarComputed == m_pc = "draw" /\ m_k >= 2

\* C16: for inner width W >= 0 and percent in [0, 100] the filled count is
\* floor(W * percent / 100), within 0..W so that filled plus empty cells is
\* W, 0 at 0 percent, W at 100 percent, and not below the count of the next
\* smaller percentage
C16_BarFill ==
    BarComputed =>
       /\ regs.filled * 1000 <= BarW * BarPct
       /\ BarW * BarPct < (regs.filled + 1) * 1000
       /\ 0 <= regs.filled /\ regs.filled <= BarW
       /\ regs.filled + bar_empty(widgets[1], regs.filled) = BarW
       /\ (BarPct = 0 => regs.filled = 0)
       /\ (BarPct = 1000 => regs.filled = BarW)
       /\ (BarPct > 0 => bar_filled(widgets[1], BarPct - 1) <= regs.filled)

\* a full bar of the widest width
C16_Witness ==
    /\ BarComputed
    /\ BarW = MaxBar /\ BarPct = 1000
    /\ regs.filled = MaxBar

\* a fraction of a cell is dropped: 99.9 percent of 14 cells fills 13
C16_WitnessFloor ==
    /\ BarComputed
    /\ BarW = MaxBar /\ BarPct = 999
    /\ regs.filled = MaxBar - 1

====
